---- MODULE Spec2Model ----
(***************************************************************************)
(* A model of mknote (src/mknote/cli.py): the project / daily-note         *)
(* repository with task carry-over, the configuration store, the           *)
(* contribution graph, the important-item extractor and its display,       *)
(* concurrent create_daily_note invocations, the grammar check with its    *)
(* CSV log, the project listing and the clipboard monitor.                 *)
(*                                                                         *)
(* Text is modelled at token level.  A string is a sequence of tokens, a   *)
(* token being a run of characters none of the program's string tests can  *)
(* split ("-", " ", "[ ]", "[x]", "##", "Tasks", ...).  A file's content   *)
(* is the sequence content.split('\n') of its lines, so a content ending   *)
(* in a newline ends with the empty line <<>>.  File names are sequences   *)
(* of single characters, compared by character code as Python compares     *)
(* str.                                                                    *)
(***************************************************************************)
EXTENDS Integers, Sequences, FiniteSets, TLC

\* Bounds of the model.
MaxDay == 3
MaxEdits == 2
MaxChecked == 12
MaxRequests == 3
MaxLogged == 1

VARIABLES
    today,      \* date.today() / datetime.now(), a day ordinal
    dirs,       \* the project directories that exist under base_dir
    files,      \* <<project, file name>> -> content, the regular files in them
    edits,      \* writes made by the user so far
    op,         \* the last command: its arguments, return value and locals
    config_file,\* the text of ~/.noter-config, or Missing
    cop,        \* the last use of the configuration store and what it returned
    graph,      \* what the last command was, if it drew a contribution graph
    items,      \* what the last command was, if it extracted important items
    procs,      \* the create_daily_note invocations running side by side
    monitor     \* the clipboard monitor: the clipboard and the loop's locals

noteVars == << today, dirs, files, edits, op >>
cfgVars == << config_file, cop >>
viewVars == << graph, items >>
procVars == << procs, monitor >>
vars == << today, dirs, files, edits, op, config_file, cop, graph, items,
          procs, monitor >>

----------------------------------------------------------------------------
\* Characters and strings

\* The characters of file names, in increasing order of character code.
Alphabet ==
    << "-", ".", "0", "1", "2", "3", "4", "5", "6", "7", "8", "9",
       "A", "D", "E", "M", "R", "a", "d", "e", "i", "m", "o", "s", "t", "x" >>

\* ord(c), up to an order-preserving renumbering.
Code(c) == CHOOSE i \in 1..Len(Alphabet) : Alphabet[i] = c

\* a < b for two str values: lexicographic by character code.
RECURSIVE StrLess(_, _)
StrLess(a, b) ==
    IF a = <<>> THEN b # <<>>
    ELSE IF b = <<>> THEN FALSE
    ELSE IF a[1] = b[1] THEN StrLess(Tail(a), Tail(b))
    ELSE Code(a[1]) < Code(b[1])

\* s.startswith(pre)
StartsWith(s, pre) ==
    Len(s) >= Len(pre) /\ SubSeq(s, 1, Len(pre)) = pre

\* s.endswith(suf)
EndsWith(s, suf) ==
    Len(s) >= Len(suf) /\ SubSeq(s, Len(s) - Len(suf) + 1, Len(s)) = suf

\* sub in s
Contains(s, sub) ==
    \E i \in 1..(Len(s) - Len(sub) + 1) : SubSeq(s, i, i + Len(sub) - 1) = sub

\* Python's None, where a file name is expected.
None == <<>>

MdExt == << ".", "m", "d" >>
README == << "R", "E", "A", "D", "M", "E" >> \o MdExt

----------------------------------------------------------------------------
\* Dates

\* The days of 2023 before each of its months.
DaysBefore == << 0, 31, 59, 90, 120, 151, 181, 212, 243, 273, 304, 334 >>

\* The calendar date of a day ordinal; ordinal 1 is 2023-12-01, and the
\* ordinals from -333 to 0 are the days of 2023 before it.
DateOf(k) ==
    IF k <= 0
    THEN LET m == CHOOSE i \in 1..11 :
                      DaysBefore[i] < 334 + k /\ 334 + k <= DaysBefore[i + 1]
         IN [y |-> 2023, m |-> m, d |-> 334 + k - DaysBefore[m]]
    ELSE IF k <= 31 THEN [y |-> 2023, m |-> 12, d |-> k]
    ELSE IF k <= 62 THEN [y |-> 2024, m |-> 1, d |-> k - 31]
    ELSE [y |-> 2024, m |-> 2, d |-> k - 62]

Digit(n) == << "0", "1", "2", "3", "4", "5", "6", "7", "8", "9" >>[n + 1]

\* strftime("%Y-%m-%d")
strftime(k) ==
    LET dt == DateOf(k) IN
    << Digit(dt.y \div 1000), Digit((dt.y \div 100) % 10),
       Digit((dt.y \div 10) % 10), Digit(dt.y % 10), "-",
       Digit(dt.m \div 10), Digit(dt.m % 10), "-",
       Digit(dt.d \div 10), Digit(dt.d % 10) >>

\* The name of the note file of a day: f"{date_str}.md".
NoteName(day) == strftime(day) \o MdExt

\* The days the clock runs through: 2023-12-30 onwards, across the new year.
Days == 30..(29 + MaxDay)

----------------------------------------------------------------------------
\* The file system under base_dir, as the os.path functions see it

\* os.path.exists(project_dir)
dir_exists(ds, project_name) == project_name \in ds

\* os.path.exists(filename)
file_exists(fs, filename) == filename \in DOMAIN fs

\* os.listdir(project_dir)
listdir(fs, project_name) == { f[2] : f \in { g \in DOMAIN fs : g[1] = project_name } }

\* open(filename, "w").write(content)
write_file(fs, filename, content) ==
    [f \in (DOMAIN fs) \cup {filename} |-> IF f = filename THEN content ELSE fs[f]]

----------------------------------------------------------------------------
\* The note template

TasksHeading == << "##", " ", "Tasks" >>
ExpectedHeading == << "##", " ", "Expected for Tomorrow" >>
Unchecked == << "-", " ", "[ ]" >>
Checked == << "-", " ", "[x]" >>

TEMPLATE(date, project_name, carried_tasks, expected_tasks) ==
    << << "#", " ", "Daily Note", " ", "-", " " >> \o date \o << " ", "-", " ", project_name >>,
       <<>>,
       << "##", " ", "Goals for Today" >>,
       Unchecked \o << " ", "Goal 1" >>,
       Unchecked \o << " ", "Goal 2" >>,
       Unchecked \o << " ", "Goal 3" >>,
       <<>>,
       TasksHeading >>
    \o carried_tasks \o
    << <<>>,
       << "##", " ", "Notes" >>,
       << "-", " ", "Note 1" >>,
       << "-", " ", "Note 2" >>,
       <<>>,
       ExpectedHeading >>
    \o expected_tasks \o
    << <<>>,
       << "##", " ", "Reflections" >>,
       << "-", " ", "What went well today?" >>,
       << "-", " ", "What could be improved?" >>,
       <<>> >>

\* The lines of '\n'.join(" -  Task {}".format(i) for i in range(3)).
get_template_tasks ==
    [i \in 1..3 |-> << " ", "-", " ", " ", "Task", " ", Digit(i - 1) >>]

----------------------------------------------------------------------------
\* Parsing a note

RECURSIVE incomplete_loop(_, _)
incomplete_loop(lines, in_tasks_section) ==
    IF lines = <<>> THEN <<>>
    ELSE LET line == Head(lines) IN
         IF Contains(line, TasksHeading)
         THEN incomplete_loop(Tail(lines), TRUE)
         ELSE IF StartsWith(line, << "##" >>)
         THEN incomplete_loop(Tail(lines), FALSE)
         ELSE IF in_tasks_section /\ StartsWith(line, Unchecked)
         THEN << line >> \o incomplete_loop(Tail(lines), in_tasks_section)
         ELSE incomplete_loop(Tail(lines), in_tasks_section)

get_incomplete_tasks(fs, filename) ==
    IF ~file_exists(fs, filename) THEN <<>>
    ELSE incomplete_loop(fs[filename], FALSE)

RECURSIVE expected_loop(_, _)
expected_loop(lines, in_expected_section) ==
    IF lines = <<>> THEN <<>>
    ELSE LET line == Head(lines) IN
         IF Contains(line, ExpectedHeading)
         THEN expected_loop(Tail(lines), TRUE)
         ELSE IF StartsWith(line, << "##" >>)
         THEN expected_loop(Tail(lines), FALSE)
         ELSE IF in_expected_section /\ StartsWith(line, << "-" >>)
         THEN << line >> \o expected_loop(Tail(lines), in_expected_section)
         ELSE expected_loop(Tail(lines), in_expected_section)

\* Mutant: the lines of the Expected section are not taken over.
get_expected_tasks_none(fs, filename) == <<>>

get_expected_tasks(fs, filename) ==
    IF ~file_exists(fs, filename) THEN <<>>
    ELSE expected_loop(fs[filename], FALSE)

----------------------------------------------------------------------------
\* Projects and daily notes

\* The name of the most recent note file of the project, or None.
find_last_note(ds, fs, project_name) ==
    IF ~dir_exists(ds, project_name) THEN None
    ELSE LET note_files == { f \in listdir(fs, project_name) :
                                EndsWith(f, MdExt) /\ f # README }
         IN IF note_files = {} THEN None
            ELSE CHOOSE f \in note_files :
                    \A g \in note_files : g = f \/ StrLess(g, f)

\* What create_daily_note takes over from the last note: its locals
\* last_note and carried_tasks.
carry_over(ds, fs, project_name) ==
    LET last_note == find_last_note(ds, fs, project_name)
        carried_tasks ==
            IF last_note # None
            THEN get_incomplete_tasks(fs, << project_name, last_note >>)
                 \o get_expected_tasks(fs, << project_name, last_note >>)
            ELSE <<>>
    IN [last_note |-> last_note, carried |-> carried_tasks]

\* Mutant: the carried lines are written into the Expected section too.
render_note_expected(project_name, today_str, carried_tasks) ==
    TEMPLATE(today_str, project_name,
             IF carried_tasks # <<>> THEN carried_tasks ELSE get_template_tasks,
             IF carried_tasks = <<>> THEN << << "-", " ", "No expected tasks" >> >>
             ELSE carried_tasks)

\* The text create_daily_note writes into today's file.
render_note(project_name, today_str, carried_tasks) ==
    LET expected_tasks == <<>>
        carried_tasks_str ==
            IF carried_tasks # <<>> THEN carried_tasks ELSE get_template_tasks
        expected_tasks_str ==
            IF expected_tasks = <<>> THEN << << "-", " ", "No expected tasks" >> >>
            ELSE expected_tasks
    IN TEMPLATE(today_str, project_name, carried_tasks_str, expected_tasks_str)

\* Mutant: the note the tasks were taken from is emptied.
create_daily_note_consume(ds, fs, project_name, now) ==
    LET today_str == strftime(now)
        today_filename == << project_name, today_str \o MdExt >>
        c == carry_over(ds, fs, project_name)
        fs1 == IF c.last_note # None
               THEN write_file(fs, << project_name, c.last_note >>, << <<>> >>)
               ELSE fs
    IN  IF ~dir_exists(ds, project_name)
        THEN [ret |-> FALSE, files |-> fs, last_note |-> None, carried |-> <<>>]
        ELSE IF file_exists(fs, today_filename)
        THEN [ret |-> FALSE, files |-> fs, last_note |-> c.last_note,
              carried |-> c.carried]
        ELSE [ret |-> TRUE,
              files |-> write_file(fs1, today_filename,
                            render_note(project_name, today_str, c.carried)),
              last_note |-> c.last_note, carried |-> c.carried]

\* Mutant: the check of the project directory is left out.
create_daily_note_nodir(ds, fs, project_name, now) ==
    LET today_str == strftime(now)
        today_filename == << project_name, today_str \o MdExt >>
        c == carry_over(ds, fs, project_name)
    IN  IF file_exists(fs, today_filename)
        THEN [ret |-> FALSE, files |-> fs, last_note |-> c.last_note,
              carried |-> c.carried]
        ELSE [ret |-> TRUE,
              files |-> write_file(fs, today_filename,
                            render_note(project_name, today_str, c.carried)),
              last_note |-> c.last_note, carried |-> c.carried]

\* Mutant: the check of today's file is left out.
create_daily_note_overwrite(ds, fs, project_name, now) ==
    LET today_str == strftime(now)
        today_filename == << project_name, today_str \o MdExt >>
        c == carry_over(ds, fs, project_name)
    IN  IF ~dir_exists(ds, project_name)
        THEN [ret |-> FALSE, files |-> fs, last_note |-> None, carried |-> <<>>]
        ELSE [ret |-> TRUE,
              files |-> write_file(fs, today_filename,
                            render_note(project_name, today_str, c.carried)),
              last_note |-> c.last_note, carried |-> c.carried]

\* The result of create_daily_note run on day `now`: its return value, the
\* files it leaves, and its locals last_note and carried_tasks.
create_daily_note(ds, fs, project_name, now) ==
    LET today_str == strftime(now)
        today_filename == << project_name, today_str \o MdExt >>
        c == carry_over(ds, fs, project_name)
    IN  IF ~dir_exists(ds, project_name)
        THEN [ret |-> FALSE, files |-> fs, last_note |-> None, carried |-> <<>>]
        ELSE IF file_exists(fs, today_filename)
        THEN [ret |-> FALSE, files |-> fs, last_note |-> c.last_note,
              carried |-> c.carried]
        ELSE [ret |-> TRUE,
              files |-> write_file(fs, today_filename,
                            render_note(project_name, today_str, c.carried)),
              last_note |-> c.last_note, carried |-> c.carried]

\* Mutant: the check of the project directory is left out.
create_project_nocheck(ds, fs, project_name, now) ==
    LET ds1 == ds \cup {project_name}
        fs1 == write_file(fs, << project_name, README >>,
                   << << "#", " ", project_name >>,
                      <<>>,
                      << "Project created on " >> \o strftime(now) >>)
    IN [ret |-> TRUE, dirs |-> ds1,
        files |-> create_daily_note(ds1, fs1, project_name, now).files]

\* The result of create_project run on day `now`: its return value and the
\* directories and files it leaves.
create_project(ds, fs, project_name, now) ==
    IF dir_exists(ds, project_name)
    THEN [ret |-> FALSE, dirs |-> ds, files |-> fs]
    ELSE LET ds1 == ds \cup {project_name}
             readme_path == << project_name, README >>
             fs1 == write_file(fs, readme_path,
                        << << "#", " ", project_name >>,
                           <<>>,
                           << "Project created on " >> \o strftime(now) >>)
         IN [ret |-> TRUE, dirs |-> ds1,
             files |-> create_daily_note(ds1, fs1, project_name, now).files]

----------------------------------------------------------------------------
\* The configuration store.  The text of the config file is a sequence of
\* JSON tokens: << "p", c >> is the punctuation mark c, << "s", v >> the
\* string literal "v".

LBrace == << "p", "{" >>
RBrace == << "p", "}" >>
Colon == << "p", ":" >>
Comma == << "p", "," >>
LBracket == << "p", "[" >>
RBracket == << "p", "]" >>
Str(v) == << "s", v >>

\* os.path.exists(CONFIG_FILE) is false.
Missing == << << "missing" >> >>

ConfigKeys == << "base_dir", "gemini_api_key", "editor", "template_path" >>

\* The keys a config file may hold, in the order the model writes them.
KeyOrder == ConfigKeys \o << "theme" >>

default_config ==
    [k \in { ConfigKeys[i] : i \in 1..Len(ConfigKeys) } |->
        CASE k = "base_dir" -> "/home/u/.notes"
          [] k = "gemini_api_key" -> ""
          [] k = "editor" -> "vim"
          [] k = "template_path" -> ""]

\* json.dump(config, f): the members of the object, one after the other.
RECURSIVE dump_members(_, _, _)
dump_members(config, i, first) ==
    IF i > Len(KeyOrder) THEN <<>>
    ELSE IF KeyOrder[i] \in DOMAIN config
    THEN (IF first THEN <<>> ELSE << Comma >>)
         \o << Str(KeyOrder[i]), Colon, Str(config[KeyOrder[i]]) >>
         \o dump_members(config, i + 1, FALSE)
    ELSE dump_members(config, i + 1, first)

json_dump(config) == << LBrace >> \o dump_members(config, 1, TRUE) \o << RBrace >>

\* json.load(f): whether the text parses, whether the value is a dict, and
\* the dict.
JSONDecodeError == [ok |-> FALSE, dict |-> FALSE, obj |-> [k \in {} |-> ""]]

\* A value that is not a dict: a string, a list.
NotADict == [ok |-> TRUE, dict |-> FALSE, obj |-> [k \in {} |-> ""]]

RECURSIVE load_members(_, _)
load_members(toks, acc) ==
    IF /\ Len(toks) >= 4
       /\ toks[1][1] = "s" /\ toks[2] = Colon /\ toks[3][1] = "s"
    THEN LET acc1 == [k \in (DOMAIN acc) \cup { toks[1][2] } |->
                         IF k = toks[1][2] THEN toks[3][2] ELSE acc[k]]
         IN IF toks[4] = RBrace
            THEN IF Len(toks) = 4 THEN [ok |-> TRUE, dict |-> TRUE, obj |-> acc1]
                 ELSE JSONDecodeError
            ELSE IF toks[4] = Comma
            THEN load_members(SubSeq(toks, 5, Len(toks)), acc1)
            ELSE JSONDecodeError
    ELSE JSONDecodeError

json_load(text) ==
    IF text = << LBrace, RBrace >>
    THEN [ok |-> TRUE, dict |-> TRUE, obj |-> [k \in {} |-> ""]]
    ELSE IF Len(text) >= 1 /\ text[1] = LBrace
    THEN load_members(Tail(text), [k \in {} |-> ""])
    ELSE IF Len(text) = 1 /\ text[1][1] = "s" THEN NotADict
    ELSE IF text = << LBracket, RBracket >> THEN NotADict
    ELSE JSONDecodeError

\* load_config left by an exception it does not catch: nothing is returned
\* and the file stays as it is.
Raised(file) ==
    [config |-> [k \in {} |-> ""], file |-> file, saved |-> FALSE, raised |-> TRUE]

\* The file save_config leaves.
save_config(config) == json_dump(config)

\* Mutant: a corrupted file is answered with the defaults but not rewritten.
load_config_nosave(file) ==
    IF file = Missing
    THEN [config |-> default_config, file |-> save_config(default_config),
          saved |-> TRUE, raised |-> FALSE]
    ELSE LET parsed == json_load(file) IN
         IF parsed.ok /\ ~parsed.dict THEN Raised(file)
         ELSE IF parsed.ok
         THEN [config |-> [k \in (DOMAIN parsed.obj) \cup (DOMAIN default_config) |->
                              IF k \in DOMAIN parsed.obj THEN parsed.obj[k]
                              ELSE default_config[k]],
               file |-> file, saved |-> FALSE, raised |-> FALSE]
         ELSE [config |-> default_config, file |-> file, saved |-> FALSE,
               raised |-> FALSE]

\* Mutant: the defaults are laid over the keys of the file.
load_config_override(file) ==
    IF file = Missing
    THEN [config |-> default_config, file |-> save_config(default_config),
          saved |-> TRUE, raised |-> FALSE]
    ELSE LET parsed == json_load(file) IN
         IF parsed.ok /\ ~parsed.dict THEN Raised(file)
         ELSE IF parsed.ok
         THEN [config |-> [k \in (DOMAIN parsed.obj) \cup (DOMAIN default_config) |->
                              IF k \in DOMAIN default_config THEN default_config[k]
                              ELSE parsed.obj[k]],
               file |-> file, saved |-> FALSE, raised |-> FALSE]
         ELSE [config |-> default_config, file |-> save_config(default_config),
               saved |-> TRUE, raised |-> FALSE]

\* The result of load_config on a config file: the config it returns, the
\* file it leaves, and whether it has saved.
load_config(file) ==
    IF file = Missing
    THEN [config |-> default_config, file |-> save_config(default_config),
          saved |-> TRUE, raised |-> FALSE]
    ELSE LET parsed == json_load(file) IN
         IF parsed.ok /\ ~parsed.dict THEN Raised(file)
         ELSE IF parsed.ok
         THEN [config |-> [k \in (DOMAIN parsed.obj) \cup (DOMAIN default_config) |->
                              IF k \in DOMAIN parsed.obj THEN parsed.obj[k]
                              ELSE default_config[k]],
               file |-> file, saved |-> FALSE, raised |-> FALSE]
         ELSE [config |-> default_config, file |-> save_config(default_config),
               saved |-> TRUE, raised |-> FALSE]

\* The file `noter config --base-dir D` / `--gemini-key K` leaves.
set_config(file, key, value) ==
    LET r == load_config(file)
        config == r.config
    IN IF r.raised THEN file
       ELSE save_config([k \in (DOMAIN config) \cup {key} |->
                            IF k = key THEN value ELSE config[k]])

\* Config files found on disk that do not parse: empty, cut short, with
\* text after the object, no JSON value at all.
BrokenConfigs ==
    { <<>>,
      << LBrace, Str("editor"), Colon >>,
      << LBrace, Str("editor"), Colon, Str("nano"), RBrace, RBrace >>,
      << RBrace >> }

\* Config files found on disk that parse, to a value that is no object: a
\* string, an empty list.
NonObjectConfigs ==
    { << Str("editor") >>,
      << LBracket, RBracket >> }

\* Config files found on disk that hold an object: with none, some or all
\* of the keys, with a key the tool does not know.
ObjectConfigs ==
    { << LBrace, RBrace >>,
      << LBrace, Str("editor"), Colon, Str("nano"), RBrace >>,
      << LBrace, Str("gemini_api_key"), Colon, Str("K1"), RBrace >>,
      << LBrace, Str("template_path"), Colon, Str("t.md"), Comma,
         Str("theme"), Colon, Str("dark"), RBrace >>,
      << LBrace, Str("base_dir"), Colon, Str("/data/notes"), Comma,
         Str("theme"), Colon, Str("dark"), RBrace >>,
      << LBrace, Str("template_path"), Colon, Str("t.md"), Comma,
         Str("gemini_api_key"), Colon, Str("K1"), Comma,
         Str("editor"), Colon, Str(""), RBrace >>,
      << LBrace, Str("base_dir"), Colon, Str("/data/notes"), Comma,
         Str("gemini_api_key"), Colon, Str("K1"), Comma,
         Str("editor"), Colon, Str("nano"), Comma,
         Str("template_path"), Colon, Str("t.md"), RBrace >> }

UserConfigs == BrokenConfigs \cup NonObjectConfigs \cup ObjectConfigs

NoCop ==
    [name |-> "none", config |-> [k \in {} |-> ""], saved |-> FALSE,
     raised |-> FALSE]

InitConfig ==
    /\ config_file = Missing
    /\ cop = NoCop

\* Any command of the tool: main loads the configuration.
cmd_load ==
    LET r == load_config(config_file) IN
    /\ config_file' = r.file
    /\ cop' = [name |-> "load", config |-> r.config, saved |-> r.saved,
               raised |-> r.raised]
    /\ UNCHANGED << noteVars, viewVars, procVars >>

\* noter config --base-dir D, noter config --gemini-key K
cmd_config(key, value) ==
    /\ config_file' = set_config(config_file, key, value)
    /\ cop' = [NoCop EXCEPT !.name = "config",
                            !.raised = load_config(config_file).raised]
    /\ UNCHANGED << noteVars, viewVars, procVars >>

\* The config file is replaced by a file from elsewhere.
user_config(text) ==
    /\ config_file' = text
    /\ cop' = [NoCop EXCEPT !.name = "user"]
    /\ UNCHANGED << noteVars, viewVars, procVars >>

\* The config file is removed.
user_remove_config ==
    /\ config_file # Missing
    /\ config_file' = Missing
    /\ cop' = [NoCop EXCEPT !.name = "remove"]
    /\ UNCHANGED << noteVars, viewVars, procVars >>

----------------------------------------------------------------------------
\* The contribution graph

\* content.count('- [x]') within one line.
RECURSIVE count_in_line(_)
count_in_line(line) ==
    IF Len(line) < Len(Checked) THEN 0
    ELSE IF SubSeq(line, 1, Len(Checked)) = Checked
    THEN 1 + count_in_line(SubSeq(line, Len(Checked) + 1, Len(line)))
    ELSE count_in_line(Tail(line))

RECURSIVE count_in_lines(_)
count_in_lines(lines) ==
    IF lines = <<>> THEN 0
    ELSE count_in_line(Head(lines)) + count_in_lines(Tail(lines))

count_completed_tasks(fs, filename) ==
    IF ~file_exists(fs, filename) THEN 0
    ELSE count_in_lines(fs[filename])

min(a, b) == IF a <= b THEN a ELSE b

\* Mutant: the level is not capped.
activity_level_nocap(fs, filename) ==
    IF file_exists(fs, filename)
    THEN LET completed_tasks == count_completed_tasks(fs, filename)
         IN IF completed_tasks = 0 THEN 1
            ELSE 1 + (completed_tasks \div 3)
    ELSE 0

\* The activity level of the day whose note file is `filename`.
activity_level(fs, filename) ==
    IF file_exists(fs, filename)
    THEN LET completed_tasks == count_completed_tasks(fs, filename)
         IN IF completed_tasks = 0 THEN 1
            ELSE min(4, 1 + (completed_tasks \div 3))
    ELSE 0

NoGraph == [drawn |-> FALSE, months |-> 0, data |-> <<>>, rows |-> <<>>]

\* date.weekday(): Monday is 0; 2023-12-01, day 1, is a Friday.
weekday(k) == (k + 3) % 7

\* Mutant: the row of a weekday starts that many days after the start date.
row_start_unaligned(start_date, day_of_week) == start_date + day_of_week

\* The first date of the row of a weekday.
row_start(start_date, day_of_week) ==
    start_date + ((7 - weekday(start_date) + day_of_week) % 7)

\* The cells of one row, from current_date on: the date of each and the
\* level its character stands for.
RECURSIVE graph_row(_, _, _)
graph_row(contribution_data, current_date, end_date) ==
    IF current_date > end_date THEN <<>>
    ELSE LET date_str == strftime(current_date) IN
         << [date |-> date_str,
             level |-> IF date_str \in DOMAIN contribution_data
                       THEN contribution_data[date_str] ELSE 0] >>
         \o graph_row(contribution_data, current_date + 7, end_date)

\* contribution_data and the rows of generate_contribution_graph run on
\* day end_date.
generate_contribution_graph(ds, fs, project_name, months, end_date) ==
    IF ~dir_exists(ds, project_name) THEN NoGraph
    ELSE LET start_date == end_date - months * 30
             contribution_data ==
                 [date_str \in { strftime(d) : d \in start_date..end_date } |->
                     activity_level(fs, << project_name, date_str \o MdExt >>)]
         IN [drawn |-> TRUE, months |-> months,
             data |-> contribution_data,
             rows |-> [day_of_week \in 0..6 |->
                          graph_row(contribution_data,
                                    row_start(start_date, day_of_week), end_date)]]

\* sorted(projects), for the directory names of the model: '_' sorts before
\* the lower-case letters.
NameOrder == << "_logs", "demo", "ghost" >>

RECURSIVE sorted_names(_, _)
sorted_names(names, i) ==
    IF i > Len(NameOrder) THEN <<>>
    ELSE (IF NameOrder[i] \in names THEN << NameOrder[i] >> ELSE <<>>)
         \o sorted_names(names, i + 1)

\* The default of the months parameter of generate_contribution_graph.
DefaultMonths == 12

\* list_projects(base_dir) run on day end_date: the names it prints, in
\* order, and the graph it draws under each.  Every directory of base_dir
\* is taken for a project.
list_projects(ds, fs, end_date) ==
    LET projects == ds IN
    [projects |-> sorted_names(projects, 1),
     graphs |-> [project \in projects |->
                   generate_contribution_graph(ds, fs, project, DefaultMonths,
                                               end_date)]]

----------------------------------------------------------------------------
\* Important items

Open == "[!]"
Close == "[!!]"
Newline == "\n"
Whitespace == { " ", Newline, "\t" }

RECURSIVE lstrip(_)
lstrip(s) == IF s # <<>> /\ s[1] \in Whitespace THEN lstrip(Tail(s)) ELSE s

RECURSIVE rstrip(_)
rstrip(s) ==
    IF s # <<>> /\ s[Len(s)] \in Whitespace
    THEN rstrip(SubSeq(s, 1, Len(s) - 1)) ELSE s

\* s.strip()
strip(s) == rstrip(lstrip(s))

\* s.split(sep)[0]
split0(s, sep) ==
    IF \E i \in 1..Len(s) : s[i] = sep
    THEN SubSeq(s, 1, (CHOOSE i \in 1..Len(s) :
                          s[i] = sep /\ \A j \in 1..(i - 1) : s[j] # sep) - 1)
    ELSE s

\* s.split(sep)[1], for s holding sep
split1(s, sep) ==
    LET i == CHOOSE i \in 1..Len(s) : s[i] = sep /\ \A j \in 1..(i - 1) : s[j] # sep
    IN split0(SubSeq(s, i + 1, Len(s)), sep)

\* ''.join(parts)
RECURSIVE join(_)
join(parts) == IF parts = <<>> THEN <<>> ELSE Head(parts) \o join(Tail(parts))

\* name.replace('.md', '')
RECURSIVE remove_md(_)
remove_md(name) ==
    IF name = <<>> THEN <<>>
    ELSE IF StartsWith(name, MdExt)
    THEN remove_md(SubSeq(name, Len(MdExt) + 1, Len(name)))
    ELSE << Head(name) >> \o remove_md(Tail(name))

\* The lines `for line in file` yields: each with its newline.
file_lines(content) ==
    [i \in 1..(Len(content) - 1) |-> content[i] \o << Newline >>]
    \o (IF content[Len(content)] # <<>> THEN << content[Len(content)] >> ELSE <<>>)

\* current_section before the first heading.
NoSection == << "(None)" >>

\* Mutant: the text is not cut at the close marker.
item_text_uncut(current_text) == split1(join(current_text), Open)

\* The text of the item whose lines are current_text.
item_text(current_text) == split0(split1(join(current_text), Open), Close)

RECURSIVE items_loop(_, _, _, _, _)
items_loop(lines, current_section, current_text, found, date) ==
    IF lines = <<>> THEN found
    ELSE LET line == Head(lines) IN
         IF StartsWith(line, << "##" >>)
         THEN items_loop(Tail(lines), strip(SubSeq(line, 2, Len(line))),
                         current_text, found, date)
         ELSE LET collected ==
                      IF current_text # <<>> THEN Append(current_text, line)
                      ELSE current_text
                  opened ==
                      IF Contains(line, << Open >>) THEN << << " " >>, line >>
                      ELSE collected
              IN IF Contains(line, << Close >>)
                 THEN items_loop(Tail(lines), current_section, <<>>,
                          IF opened # <<>>
                          THEN Append(found, [item |-> item_text(opened),
                                              section |-> current_section,
                                              date |-> date])
                          ELSE found,
                          date)
                 ELSE items_loop(Tail(lines), current_section, opened, found, date)

get_important_items(fs, filename) ==
    IF ~file_exists(fs, filename) THEN <<>>
    ELSE items_loop(file_lines(fs[filename]), NoSection, <<>>, <<>>,
                    remove_md(filename[2]))

NoItems ==
    [scanned |-> FALSE, file |-> << "", None >>, found |-> <<>>,
     displayed |-> FALSE, printed |-> <<>>]

\* all_important_items of display_important_items, the directory being
\* listed in the order `listing`.
RECURSIVE collect_items(_, _, _)
collect_items(fs, project_name, listing) ==
    IF listing = <<>> THEN <<>>
    ELSE LET filename == Head(listing) IN
         (IF EndsWith(filename, MdExt) /\ filename # README
          THEN get_important_items(fs, << project_name, filename >>)
          ELSE <<>>)
         \o collect_items(fs, project_name, Tail(listing))

\* Mutant: an item goes before the items of its own date.
RECURSIVE insert_by_date_unstable(_, _)
insert_by_date_unstable(sorted, x) ==
    IF sorted = <<>> THEN << x >>
    ELSE IF ~StrLess(x.date, Head(sorted).date) THEN << x >> \o sorted
    ELSE << Head(sorted) >> \o insert_by_date_unstable(Tail(sorted), x)

\* One step of list.sort(key=date, reverse=True), which is stable: x goes
\* behind every item whose date is not smaller than its own.
RECURSIVE insert_by_date(_, _)
insert_by_date(sorted, x) ==
    IF sorted = <<>> THEN << x >>
    ELSE IF StrLess(Head(sorted).date, x.date) THEN << x >> \o sorted
    ELSE << Head(sorted) >> \o insert_by_date(Tail(sorted), x)

\* all_important_items.sort(key=lambda x: x['date'], reverse=True)
RECURSIVE sort_by_date(_, _)
sort_by_date(unsorted, sorted) ==
    IF unsorted = <<>> THEN sorted
    ELSE sort_by_date(Tail(unsorted), insert_by_date(sorted, Head(unsorted)))

\* What the display loop prints: a header at every change of date, and the
\* items.
RECURSIVE print_items(_, _)
print_items(all_important_items, current_date) ==
    IF all_important_items = <<>> THEN <<>>
    ELSE LET item == Head(all_important_items) IN
         (IF current_date # item.date
          THEN << [header |-> TRUE, date |-> item.date,
                   section |-> NoSection, item |-> <<>>] >>
          ELSE <<>>)
         \o << [header |-> FALSE, date |-> item.date,
                section |-> item.section, item |-> item.item] >>
         \o print_items(Tail(all_important_items), item.date)

\* What display_important_items prints below its title.
display_important_items(ds, fs, project_name, listing) ==
    IF ~dir_exists(ds, project_name) THEN <<>>
    ELSE print_items(sort_by_date(collect_items(fs, project_name, listing), <<>>),
                     NoSection)

----------------------------------------------------------------------------
\* The grammar check and the clipboard monitor.  A clipboard text is a
\* sequence of characters.

UpperCase ==
    << "A", "B", "C", "D", "E", "F", "G", "H", "I", "J", "K", "L", "M",
       "N", "O", "P", "Q", "R", "S", "T", "U", "V", "W", "X", "Y", "Z" >>
LowerCase ==
    << "a", "b", "c", "d", "e", "f", "g", "h", "i", "j", "k", "l", "m",
       "n", "o", "p", "q", "r", "s", "t", "u", "v", "w", "x", "y", "z" >>

\* s.lower()
lower(s) ==
    [n \in 1..Len(s) |->
        IF \E i \in 1..Len(UpperCase) : UpperCase[i] = s[n]
        THEN LowerCase[CHOOSE i \in 1..Len(UpperCase) : UpperCase[i] = s[n]]
        ELSE s[n]]

\* The exceptions the try block of check_grammar can end with, by the
\* handler that catches them.
NoException == "none"
RequestException == "requests.exceptions.RequestException"
OtherException == "Exception"

\* What the API request of check_grammar comes to: a corrected text, a
\* candidate without text, a response without candidates, a request that
\* raises (network failure), a non-2xx status, a body that is not JSON
\* (response.json() raises a RequestException or a plain ValueError,
\* depending on the version of requests).
Responses ==
    { [kind |-> "ok", exc |-> NoException,
       text |-> << "P", "l", "e", "a", "s", "e", " ", "f", "i", "x", " ", "i", "t", "." >> ],
      [kind |-> "ok", exc |-> NoException,
       text |-> << "a", "i", ":", "p", "l", "e", "a", "s", "e", " ", "f", "i", "x", " ", "i", "t" >> ],
      [kind |-> "empty", exc |-> NoException, text |-> <<>>],
      [kind |-> "unexpected", exc |-> NoException, text |-> <<>>],
      [kind |-> "network", exc |-> RequestException, text |-> <<>>],
      [kind |-> "status", exc |-> RequestException, text |-> <<>>],
      [kind |-> "malformed", exc |-> RequestException, text |-> <<>>],
      [kind |-> "malformed", exc |-> OtherException, text |-> <<>>] }

\* The failure markers of the log.
NO_CORRECTION_RECEIVED == << "NO_CORRECTION_RECEIVED" >>
UNEXPECTED_API_RESPONSE == << "UNEXPECTED_API_RESPONSE" >>
API_ERROR == << "API_ERROR: " >>
ERROR == << "ERROR: " >>

\* The name of the log file of the month of a day.
LogsDir == "_logs"
LogName(now) ==
    << "g", "r", "a", "m", "m", "a", "r", "_", "c", "h", "e", "c", "k", "s", "_" >>
    \o SubSeq(strftime(now), 1, 7) \o << ".", "c", "s", "v" >>

LogHeader == << << "Timestamp" >>, << "Original Text" >>, << "Corrected Text" >> >>

\* log_grammar_check(request_text, corrected_text) on day `now`: the
\* directories and the files after it.  A CSV file is the sequence of its
\* rows, a row the sequence of its fields.
log_grammar_check(ds, fs, request_text, corrected_text, now) ==
    LET log_file == << LogsDir, LogName(now) >>
        row == << strftime(now), request_text, corrected_text >>
    IN [dirs |-> ds \cup { LogsDir },
        files |-> write_file(fs, log_file,
                      IF file_exists(fs, log_file)
                      THEN Append(fs[log_file], row)
                      ELSE << LogHeader, row >>)]

\* The calls of log_grammar_check in `logged`, made one after the other.
RECURSIVE log_all(_, _, _, _)
log_all(ds, fs, logged, now) ==
    IF logged = <<>> THEN [dirs |-> ds, files |-> fs]
    ELSE LET r == log_grammar_check(ds, fs, Head(logged)[1], Head(logged)[2], now)
         IN log_all(r.dirs, r.files, Tail(logged), now)

\* The try block of check_grammar, the API answering `response`: the
\* exception it ends with, what it returns (None when it falls off its
\* end), whether it copies the corrected text to the clipboard, the calls
\* of log_grammar_check it makes, and whether stop_progress was set.
check_grammar_try(text, response) ==
    IF response.kind = "network"
    THEN [exc |-> response.exc, ret |-> None, copied |-> FALSE,
          logged |-> <<>>, stop_progress |-> FALSE]
    ELSE IF response.exc # NoException
    THEN [exc |-> response.exc, ret |-> None, copied |-> FALSE,
          logged |-> <<>>, stop_progress |-> TRUE]
    ELSE IF response.kind = "ok"
    THEN [exc |-> NoException, ret |-> response.text, copied |-> TRUE,
          logged |-> << << text, response.text >> >>, stop_progress |-> TRUE]
    ELSE [exc |-> NoException, ret |-> None, copied |-> FALSE,
          logged |-> << << text,
                           IF response.kind = "empty"
                           THEN NO_CORRECTION_RECEIVED
                           ELSE UNEXPECTED_API_RESPONSE >> >>,
          stop_progress |-> TRUE]

\* Mutant: there is no handler for exceptions other than RequestException.
check_grammar_unhandled(text, response) ==
    LET t == check_grammar_try(text, response) IN
    [ret |-> t.ret, copied |-> t.copied,
     logged |-> IF t.exc = RequestException
                THEN << << text, API_ERROR >> >> ELSE t.logged,
     raised |-> t.exc = OtherException,
     stop_progress |-> t.stop_progress]

\* check_grammar(text) with the API key set, the API answering `response`:
\* the try block and the two handlers after it.
check_grammar(text, response) ==
    LET t == check_grammar_try(text, response) IN
    [ret |-> t.ret, copied |-> t.copied,
     logged |-> CASE t.exc = RequestException -> << << text, API_ERROR >> >>
                  [] t.exc = OtherException -> << << text, ERROR >> >>
                  [] OTHER -> t.logged,
     raised |-> FALSE,
     stop_progress |-> t.stop_progress]

\* summarize_clipboard_session() with the API key set, the session file
\* holding session_content, the API answering `response`: what it returns
\* and whether it leaves its spinner thread running.  show_spinner loops
\* `while True`: nothing stops it, spinner_thread.join(0.5) only waits.
summarize_clipboard_session(session_content, response) ==
    IF strip(session_content) = <<>>
    THEN [ret |-> None, spinning |-> FALSE]
    ELSE [ret |-> IF response.kind = "ok" THEN response.text ELSE None,
          spinning |-> TRUE]

\* One pass of the loop of monitor_clipboard, the clipboard being read
\* without error: the monitor after it.  `sent` counts the API requests
\* made since the clipboard last changed, `calls` all of them, `spinners`
\* the progress threads that were started and not told to stop, `session`
\* the session file; `own` says that the clipboard holds what check_grammar
\* copied to it.
monitor_poll(m, response) ==
    IF ~StartsWith(lower(m.clipboard), << "a", "i", ":" >>) THEN m
    ELSE LET current_content == SubSeq(m.clipboard, 3, Len(m.clipboard)) IN
         IF current_content # m.last_content /\ strip(current_content) # <<>>
         THEN IF m.has_zenity /\ Len(current_content) > 10
              THEN LET r == check_grammar(current_content, response) IN
                   [m EXCEPT !.last_content = IF r.raised THEN current_content
                                              ELSE r.ret,
                             !.clipboard = IF r.copied THEN r.ret ELSE @,
                             !.own = IF r.copied THEN TRUE ELSE @,
                             !.sent = IF r.copied THEN 0 ELSE @ + 1,
                             !.calls = @ + 1,
                             !.logged = r.logged,
                             !.spinners = IF r.stop_progress THEN @ ELSE @ + 1,
                             !.session = IF r.raised THEN @
                                         ELSE << "user-inserted-text:" >>]
              ELSE [m EXCEPT !.last_content = current_content]
         ELSE m

----------------------------------------------------------------------------
\* Invocations running side by side, and the clipboard monitor

\* No create_daily_note is in progress.
NoProcs == <<>>

\* The clipboard monitor is not running.  read_error: the last clipboard
\* read of the monitor raised.
NoMonitor == [running |-> FALSE, read_error |-> FALSE]

InitProcs ==
    /\ procs = NoProcs
    /\ monitor = NoMonitor

----------------------------------------------------------------------------
\* What the user puts into the notes with an editor

Projects == { "demo" }

T1 == Unchecked \o << " ", "write report" >>
T2 == Unchecked \o << " ", "call Bob" >>
TX == Checked \o << " ", "fix bug" >>
TI == << " ", " " >> \o Unchecked \o << " ", "subtask" >>
E1 == << "-", " ", "prepare demo" >>
EU == Unchecked \o << " ", "review PR" >>
ET == << "later: ship" >>
NoExpected == << "-", " ", "No expected tasks" >>

\* What the user makes of the Tasks and the Expected for Tomorrow sections
\* of a daily note: << the Tasks body, the Expected body >>.
NoteEdits ==
    { << << T1, T2 >>, << NoExpected >> >>,
      << <<>>, <<>> >>,
      << << T2, TX, T1 >>, << E1, EU >> >>,
      << << TI, <<>>, T2 >>, << ET >> >>,
      << << TX >>, << NoExpected >> >> }

\* Notes the user writes from scratch.
FreeNotes ==
    { << ExpectedHeading, E1, <<>>, TasksHeading, T2, T1, <<>> >>,
      << T1, << "##", " ", "Notes" >>, T2, <<>> >> }

\* Files the user keeps next to the notes.
StrayNames ==
    { << "t", "o", "d", "o" >> \o MdExt,
      << "i", "d", "e", "a", "s", ".", "t", "x", "t" >> }

NoOp == [name |-> "none", project |-> "", ret |-> FALSE,
         last_note |-> None, carried |-> <<>>]

Init ==
    /\ today = 30
    /\ dirs = {}
    /\ files = <<>>
    /\ edits = 0
    /\ op = NoOp
    /\ InitConfig
    /\ graph = NoGraph
    /\ items = NoItems
    /\ InitProcs

\* noter new <project>
cmd_new(project_name) ==
    LET r == create_project(dirs, files, project_name, today) IN
    /\ dirs' = r.dirs
    /\ files' = r.files
    /\ op' = [NoOp EXCEPT !.name = "new", !.project = project_name, !.ret = r.ret]
    /\ UNCHANGED << today, edits, cfgVars, viewVars, procVars >>

\* noter daily <project>
cmd_daily(project_name) ==
    LET r == create_daily_note(dirs, files, project_name, today) IN
    /\ files' = r.files
    /\ op' = [name |-> "daily", project |-> project_name, ret |-> r.ret,
              last_note |-> r.last_note, carried |-> r.carried]
    /\ UNCHANGED << today, dirs, edits, cfgVars, viewVars, procVars >>

\* The user edits the Tasks and Expected sections of a daily note.
user_edit(project_name, day, tasks, expected) ==
    LET filename == << project_name, strftime(day) \o MdExt >> IN
    /\ edits < MaxEdits
    /\ file_exists(files, filename)
    /\ files' = write_file(files, filename,
                    TEMPLATE(strftime(day), project_name, tasks, expected))
    /\ edits' = edits + 1
    /\ op' = [NoOp EXCEPT !.name = "edit", !.project = project_name]
    /\ UNCHANGED << today, dirs, cfgVars, viewVars, procVars >>

\* The user saves a file of their own in a project directory.
user_write(project_name, name, content) ==
    /\ edits < MaxEdits
    /\ dir_exists(dirs, project_name)
    /\ files' = write_file(files, << project_name, name >>, content)
    /\ edits' = edits + 1
    /\ op' = [NoOp EXCEPT !.name = "write", !.project = project_name]
    /\ UNCHANGED << today, dirs, cfgVars, viewVars, procVars >>

\* The calendar day changes.
midnight ==
    /\ today + 1 \in Days
    /\ today' = today + 1
    /\ op' = [NoOp EXCEPT !.name = "midnight"]
    /\ UNCHANGED << dirs, files, edits, cfgVars, viewVars, procVars >>

Next ==
    \/ \E p \in Projects : cmd_new(p)
    \/ \E p \in Projects : cmd_daily(p)
    \/ \E p \in Projects, d \in Days, e \in NoteEdits :
           user_edit(p, d, e[1], e[2])
    \/ \E p \in Projects, n \in StrayNames, c \in FreeNotes : user_write(p, n, c)
    \/ midnight

Spec == Init /\ [][Next]_vars

\* The configuration store on its own.
NextConfig ==
    \/ cmd_load
    \/ \E v \in { "/data/notes", "/home/u/.notes", "/srv/n" } : cmd_config("base_dir", v)
    \/ \E v \in { "K1", "K2" } : cmd_config("gemini_api_key", v)
    \/ \E t \in UserConfigs : user_config(t)
    \/ user_remove_config

SpecConfig == Init /\ [][NextConfig]_vars

----------------------------------------------------------------------------
\* The contribution graph on its own: a project with notes on the first day
\* of a one-month range, on the day before it and on the last day, in which
\* the user ticks off tasks.

Months == { 0, 1, 2 }

\* The Tasks body of a note with c ticked boxes, two to a line.
RECURSIVE ticked_lines(_)
ticked_lines(c) ==
    IF c = 0 THEN << T1 >>
    ELSE IF c = 1 THEN << TX, T1 >>
    ELSE << Checked \o << " ", "a", " " >> \o Checked \o << " ", "b" >> >>
         \o ticked_lines(c - 2)

GraphNote(day, c) ==
    TEMPLATE(strftime(day), "demo", ticked_lines(c), << NoExpected >>)

InitGraph ==
    /\ today = 31 + 31
    /\ dirs = { "demo" }
    /\ \E noted \in SUBSET { today - 31, today - 30, today } :
          files = [f \in { << "demo", NoteName(d) >> : d \in noted } |->
                      GraphNote(CHOOSE d \in noted : f = << "demo", NoteName(d) >>, 0)]
    /\ edits = 0
    /\ op = NoOp
    /\ InitConfig
    /\ graph = NoGraph
    /\ items = NoItems
    /\ InitProcs

\* The user ticks off one more task in the note of a day.
user_tick(day) ==
    LET filename == << "demo", NoteName(day) >> IN
    /\ file_exists(files, filename)
    /\ count_completed_tasks(files, filename) < MaxChecked
    /\ files' = write_file(files, filename,
                    GraphNote(day, count_completed_tasks(files, filename) + 1))
    /\ graph' = NoGraph
    /\ UNCHANGED << today, dirs, edits, op, cfgVars, items, procVars >>

\* noter stats <project> --months N
cmd_stats(project_name, months) ==
    /\ graph' = generate_contribution_graph(dirs, files, project_name, months, today)
    /\ UNCHANGED << noteVars, cfgVars, items, procVars >>

NextGraph ==
    \/ \E d \in { today - 31, today - 30, today } : user_tick(d)
    \/ \E p \in { "demo", "ghost" }, m \in Months : cmd_stats(p, m)

SpecGraph == InitGraph /\ [][NextGraph]_vars

----------------------------------------------------------------------------
\* The important-item extractor on its own: notes of a heading line and a
\* line with one open and one later close marker.

ItemHeadings ==
    { << "##", " ", "A" >>, << "##", " ", "A", " " >>, << "##", " ", " ", "A" >> }

ItemPres == { <<>>, << "text", " " >>, << "-", " ", "[ ]", " " >> }

ItemInners ==
    { << " ", "inner", " " >>, <<>>, << "x" >>, << " ", "-", " ", "[x]", " " >> }

ItemPosts == { <<>>, << " ", "more" >>, << " " >> }

ItemNotes ==
    { << h, pre \o << Open >> \o inner \o << Close >> \o post >> \o tail :
        h \in ItemHeadings, pre \in ItemPres, inner \in ItemInners,
        post \in ItemPosts, tail \in { <<>>, << <<>> >> } }

InitItems ==
    /\ today = 30
    /\ dirs = { "demo" }
    /\ \E note \in ItemNotes : files = [f \in { << "demo", NoteName(30) >> } |-> note]
    /\ edits = 0
    /\ op = NoOp
    /\ InitConfig
    /\ graph = NoGraph
    /\ items = NoItems
    /\ InitProcs

\* get_important_items on a file of the project.
cmd_scan(filename) ==
    /\ items' = [NoItems EXCEPT !.scanned = TRUE, !.file = filename,
                                !.found = get_important_items(files, filename)]
    /\ UNCHANGED << noteVars, cfgVars, graph, procVars >>

NextItems ==
    \E d \in { 30, 31 } : cmd_scan(<< "demo", NoteName(d) >>)

SpecItems == InitItems /\ [][NextItems]_vars

----------------------------------------------------------------------------
\* Important items over several lines and several notes: a project with
\* the notes of two days, and at times a second file of the first day's
\* date, which are scanned one by one and displayed together.

HA == << "##", " ", "A" >>
HB == << "##", " ", "B" >>
LO == << "text", " ", Open, " ", "one" >>
LM == << "middle" >>
LC == << "end", " ", Close, " ", "tail" >>
LOC == << Open, " ", "x", " ", Close >>
LOC2 == << "-", " ", Open, "y", Close, " ", "z" >>
LCO == << "a", " ", Close, " ", "b", " ", Open, " ", "c" >>

SpanNotes ==
    { << HA, LO, LM, LC, <<>> >>,
      << HA, LO, HB, LC, <<>> >>,
      << HA, LOC, HB, LO, LM >>,
      << HA, LO, LM, <<>> >>,
      << HA, LCO, <<>> >>,
      << HA, LOC, LOC2, HB, LOC >>,
      << LO, <<>>, LC >> }

\* A second file whose name gives the date of the first day.
TwinName == NoteName(30) \o MdExt

\* The orders os.listdir may list the files of a project in.
Listings(fs, project_name) ==
    LET names == listdir(fs, project_name)
        n == Cardinality(names)
    IN { l \in [1..n -> names] : \A i, j \in 1..n : i # j => l[i] # l[j] }

InitSpans ==
    /\ today = 31
    /\ dirs = { "demo" }
    /\ \E n1, n2 \in SpanNotes, twin \in BOOLEAN :
          files = [f \in { << "demo", README >>, << "demo", NoteName(30) >>,
                           << "demo", NoteName(31) >> }
                         \cup (IF twin THEN { << "demo", TwinName >> } ELSE {}) |->
                      IF f[2] = README THEN << << "#", " ", "demo" >> >>
                      ELSE IF f[2] = NoteName(30) THEN n1
                      ELSE IF f[2] = NoteName(31) THEN n2
                      ELSE << HB, LOC2, LOC, <<>> >>]
    /\ edits = 0
    /\ op = NoOp
    /\ InitConfig
    /\ graph = NoGraph
    /\ items = NoItems
    /\ InitProcs

\* noter i <project>
cmd_i(project_name, listing) ==
    /\ items' = [NoItems EXCEPT
                    !.displayed = TRUE, !.file = << project_name, None >>,
                    !.found = collect_items(files, project_name, listing),
                    !.printed = display_important_items(dirs, files,
                                    project_name, listing)]
    /\ UNCHANGED << noteVars, cfgVars, graph, procVars >>

NextSpans ==
    \/ \E f \in DOMAIN files : cmd_scan(f)
    \/ \E l \in Listings(files, "demo") : cmd_i("demo", l)

SpecSpans == InitSpans /\ [][NextSpans]_vars

----------------------------------------------------------------------------
\* Two create_daily_note invocations on one project and one day, running
\* side by side: each is the sequence of its file system calls, and the
\* user may edit the notes in between.

Invocations == { 1, 2 }

\* An invocation that has not started: where it stands, its locals
\* last_note and carried_tasks, what it has returned, and how many writes
\* the user had made when it read the last note.
Idle == [pc |-> "idle", last_note |-> None, carried |-> <<>>, ret |-> FALSE,
         seen |-> 0]

\* Mutant: today's file is opened for appending.
write_today_append(fs, today_filename, content) ==
    [ret |-> TRUE,
     files |-> write_file(fs, today_filename,
                   IF file_exists(fs, today_filename)
                   THEN fs[today_filename] \o content ELSE content)]

\* Mutant: today's file is opened for exclusive creation.
write_today_exclusive(fs, today_filename, content) ==
    IF file_exists(fs, today_filename) THEN [ret |-> FALSE, files |-> fs]
    ELSE [ret |-> TRUE, files |-> write_file(fs, today_filename, content)]

\* with open(today_filename, "w") as file: file.write(...); return True
write_today(fs, today_filename, content) ==
    [ret |-> TRUE, files |-> write_file(fs, today_filename, content)]

InitRace ==
    /\ today = 31
    /\ \E made \in BOOLEAN :
          /\ dirs = (IF made THEN { "demo" } ELSE {})
          /\ files = (IF made THEN create_project({}, <<>>, "demo", 30).files
                      ELSE <<>>)
    /\ edits = 0
    /\ op = NoOp
    /\ InitConfig
    /\ graph = NoGraph
    /\ items = NoItems
    /\ procs = [i \in Invocations |-> Idle]
    /\ monitor = NoMonitor

\* The invocation checks the project directory.
inv_start(i, project_name) ==
    /\ procs[i].pc = "idle"
    /\ procs' = [procs EXCEPT ![i].pc =
                    IF dir_exists(dirs, project_name) THEN "read" ELSE "done"]
    /\ UNCHANGED << noteVars, cfgVars, viewVars, monitor >>

\* The invocation finds the last note and reads its tasks.
inv_read(i, project_name) ==
    LET c == carry_over(dirs, files, project_name) IN
    /\ procs[i].pc = "read"
    /\ procs' = [procs EXCEPT ![i].pc = "check", ![i].last_note = c.last_note,
                              ![i].carried = c.carried, ![i].seen = edits]
    /\ UNCHANGED << noteVars, cfgVars, viewVars, monitor >>

\* The invocation checks whether today's file exists.
inv_check(i, project_name) ==
    /\ procs[i].pc = "check"
    /\ procs' = [procs EXCEPT ![i].pc =
                    IF file_exists(files, << project_name, NoteName(today) >>)
                    THEN "done" ELSE "write"]
    /\ UNCHANGED << noteVars, cfgVars, viewVars, monitor >>

\* The invocation writes today's file and returns.
inv_write(i, project_name) ==
    LET r == write_today(files, << project_name, NoteName(today) >>,
                 render_note(project_name, strftime(today), procs[i].carried)) IN
    /\ procs[i].pc = "write"
    /\ files' = r.files
    /\ procs' = [procs EXCEPT ![i].pc = "done", ![i].ret = r.ret]
    /\ UNCHANGED << today, dirs, edits, op, cfgVars, viewVars, monitor >>

NextRace ==
    \/ \E i \in Invocations : inv_start(i, "demo")
    \/ \E i \in Invocations : inv_read(i, "demo")
    \/ \E i \in Invocations : inv_check(i, "demo")
    \/ \E i \in Invocations : inv_write(i, "demo")
    \/ \E d \in { 30, 31 }, e \in NoteEdits : user_edit("demo", d, e[1], e[2])

SpecRace == InitRace /\ [][NextRace]_vars

----------------------------------------------------------------------------
\* The clipboard monitor on its own: the user copies texts, the loop polls.

\* What the user copies: a request to the monitor, the same with the prefix
\* in capitals, one too short to be checked, a text that is no request.
UserTexts ==
    { << "a", "i", ":", "p", "l", "e", "a", "s", "e", " ", "f", "i", "x" >>,
      << "A", "I", ":", "F", "i", "x", " ", "t", "h", "i", "s", " ", "t", "e", "x", "t" >>,
      << "a", "i", ":", "h", "i" >>,
      << "h", "e", "l", "l", "o" >> }

InitMonitor ==
    /\ today = 30
    /\ dirs = {}
    /\ files = <<>>
    /\ edits = 0
    /\ op = NoOp
    /\ InitConfig
    /\ graph = NoGraph
    /\ items = NoItems
    /\ procs = NoProcs
    /\ monitor = NoMonitor

\* noter monitor: the clipboard is read a first time, last_content =
\* pyperclip.paste(), and the loop is entered.  The read is in no try block
\* but the one that catches KeyboardInterrupt: if it raises, so does
\* monitor_clipboard.
monitor_start(text, has_zenity, readable) ==
    /\ ~monitor.running
    /\ monitor' = IF readable
                  THEN [running |-> TRUE, read_error |-> FALSE,
                        has_zenity |-> has_zenity,
                        clipboard |-> text, last_content |-> text,
                        sent |-> 0, calls |-> 0, logged |-> <<>>,
                        spinners |-> 0, session |-> <<>>, own |-> FALSE]
                  ELSE [running |-> FALSE, read_error |-> TRUE]
    /\ UNCHANGED << noteVars, cfgVars, viewVars, procs >>

\* The user copies a text.
user_copy(text) ==
    /\ monitor.running
    /\ text # monitor.clipboard
    /\ monitor' = [monitor EXCEPT !.clipboard = text, !.sent = 0,
                                  !.own = FALSE]
    /\ UNCHANGED << noteVars, cfgVars, viewVars, procs >>

\* The loop wakes up and reads the clipboard.
poll(response) ==
    /\ monitor.running
    /\ monitor.calls < MaxRequests
    /\ monitor' = [monitor_poll(monitor, response) EXCEPT !.read_error = FALSE]
    /\ LET logged == IF monitor'.calls = monitor.calls THEN <<>>
                     ELSE monitor'.logged
           r == log_all(dirs, files, logged, today)
       IN dirs' = r.dirs /\ files' = r.files
    /\ UNCHANGED << today, edits, op, cfgVars, viewVars, procs >>

\* The loop wakes up and pyperclip.paste() raises: the error is printed and
\* the loop goes on.
poll_error ==
    /\ monitor.running
    /\ monitor' = [monitor EXCEPT !.read_error = TRUE]
    /\ UNCHANGED << noteVars, cfgVars, viewVars, procs >>

\* The user types s at the monitor: the session is summarized.
input_summarize(response) ==
    LET r == summarize_clipboard_session(monitor.session, response) IN
    /\ monitor.running
    /\ monitor.spinners < MaxRequests
    /\ monitor' = [monitor EXCEPT !.spinners = IF r.spinning THEN @ + 1 ELSE @,
                                  !.read_error = FALSE]
    /\ UNCHANGED << noteVars, cfgVars, viewVars, procs >>

NextMonitor ==
    \/ \E t \in UserTexts \cup { <<>> }, z \in BOOLEAN, readable \in BOOLEAN :
           monitor_start(t, z, readable)
    \/ \E t \in UserTexts : user_copy(t)
    \/ \E r \in Responses : poll(r)
    \/ poll_error
    \/ \E r \in Responses : input_summarize(r)

SpecMonitor == InitMonitor /\ [][NextMonitor]_vars

----------------------------------------------------------------------------
\* The grammar check run from the command line, over the change of month.

\* The text given with --text.
GrammarTexts ==
    { << "H", "e", " ", "g", "o", " ", "h", "o", "m", "e" >> }

\* The data rows of the grammar logs.
RECURSIVE LogRowsOf(_, _)
LogRowsOf(fs, names) ==
    IF names = {} THEN 0
    ELSE LET f == CHOOSE g \in names : TRUE
         IN (Len(fs[f]) - 1) + LogRowsOf(fs, names \ {f})

LogRows(fs) == LogRowsOf(fs, { f \in DOMAIN fs : f[1] = LogsDir })

\* noter grammar --text T
cmd_grammar(text, response) ==
    LET r == check_grammar(text, response)
        l == log_all(dirs, files, r.logged, today)
    IN /\ LogRows(files) < MaxRequests
       /\ dirs' = l.dirs
       /\ files' = l.files
       /\ op' = [name |-> "grammar", project |-> "", text |-> text,
                 kind |-> response.kind, ret |-> r.ret, raised |-> r.raised,
                 stop_progress |-> r.stop_progress]
       /\ UNCHANGED << today, edits, cfgVars, viewVars, procVars >>

NextGrammar ==
    \/ \E t \in GrammarTexts, r \in Responses : cmd_grammar(t, r)
    \/ midnight

SpecGrammar == Init /\ [][NextGrammar]_vars

----------------------------------------------------------------------------
\* get_incomplete_tasks on its own, on notes whose sections the user has
\* filled with text of their own.

\* A line that mentions the Tasks heading.
Mention == << "-", " ", "moved to", " ", "##", " ", "Tasks" >>
G1 == Unchecked \o << " ", "Goal 1" >>
N1 == << "-", " ", "Note 1" >>
NU == Unchecked \o << " ", "idea" >>
RU == Unchecked \o << " ", "retro" >>

GoalBodies == { << G1 >>, << Mention, G1 >> }
TaskBodies == { << T1, T2 >>, << T2, TX, T1 >>, <<>>, << TI, T2 >> }
NoteBodies == { << N1 >>, << NU >>, << N1, Mention, NU >> }
ReflectionBodies == { << N1 >>, << RU >> }

TaskNote(g, t, n, r) ==
    << << "#", " ", "Daily Note" >>, <<>>, << "##", " ", "Goals for Today" >> >>
    \o g \o << <<>>, TasksHeading >> \o t
    \o << <<>>, << "##", " ", "Notes" >> >> \o n
    \o << <<>>, ExpectedHeading, EU, <<>>, << "##", " ", "Reflections" >> >>
    \o r \o << <<>> >>

TaskNotes ==
    { TaskNote(g, t, n, r) :
        g \in GoalBodies, t \in TaskBodies, n \in NoteBodies,
        r \in ReflectionBodies }

InitTasks ==
    /\ today = 31
    /\ dirs = { "demo" }
    /\ \E c \in TaskNotes : files = [f \in { << "demo", NoteName(30) >> } |-> c]
    /\ edits = 0
    /\ op = NoOp
    /\ InitConfig
    /\ graph = NoGraph
    /\ items = NoItems
    /\ InitProcs

\* get_incomplete_tasks(filename)
call_get_incomplete_tasks(filename) ==
    /\ op' = [NoOp EXCEPT !.name = "tasks", !.project = filename[1],
                          !.last_note = filename[2],
                          !.carried = get_incomplete_tasks(files, filename)]
    /\ UNCHANGED << today, dirs, files, edits, cfgVars, viewVars, procVars >>

NextTasks ==
    \E d \in { 30, 31 } : call_get_incomplete_tasks(<< "demo", NoteName(d) >>)

SpecTasks == InitTasks /\ [][NextTasks]_vars

----------------------------------------------------------------------------
\* The commands of main one after the other, on one day.

\* The values of --months given to list.
ListMonths == { 1, DefaultMonths }

\* noter list --months N
cmd_list(months) ==
    LET r == list_projects(dirs, files, today) IN
    /\ graph' = [drawn |-> FALSE, months |-> months, data |-> <<>>,
                 rows |-> <<>>, projects |-> r.projects, graphs |-> r.graphs]
    /\ op' = [NoOp EXCEPT !.name = "list"]
    /\ UNCHANGED << today, dirs, files, edits, cfgVars, items, procVars >>

NextMain ==
    \/ \E p \in Projects : cmd_new(p)
    \/ \E p \in Projects : cmd_daily(p)
    \/ \E t \in GrammarTexts, r \in Responses :
           LogRows(files) < MaxLogged /\ cmd_grammar(t, r)
    \/ \E v \in { "K1" } : cmd_config("gemini_api_key", v)
    \/ \E m \in ListMonths : cmd_list(m)

SpecMain == Init /\ [][NextMain]_vars

----------------------------------------------------------------------------
\* Carry-over from day to day in a project that holds README.md and dated
\* notes only, the user writing tasks of their own.

\* A task that mentions the Tasks heading.
TM == Unchecked \o << " ", "tidy", " ", "##", " ", "Tasks" >>

CarryEdits ==
    { << << T1, T2 >>, << NoExpected >> >>,
      << << TM, T1 >>, << E1 >> >>,
      << << TX, TI, T2 >>, <<>> >> }

NextCarry ==
    \/ \E p \in Projects : cmd_new(p)
    \/ \E p \in Projects : cmd_daily(p)
    \/ \E p \in Projects, d \in Days, e \in CarryEdits :
           user_edit(p, d, e[1], e[2])
    \/ midnight

SpecCarry == Init /\ [][NextCarry]_vars

----------------------------------------------------------------------------
\* Notions the properties are stated in

\* Line i of a note lies in a section headed `heading`: the nearest heading
\* line above it is that heading.
InSection(content, i, heading) ==
    /\ ~StartsWith(content[i], << "##" >>)
    /\ \E h \in 1..(i - 1) :
          /\ content[h] = heading
          /\ \A k \in (h + 1)..i : ~StartsWith(content[k], << "##" >>)

\* The lines of a note whose index is in idx, in file order.
RECURSIVE LinesAt(_, _, _)
LinesAt(content, idx, i) ==
    IF i > Len(content) THEN <<>>
    ELSE (IF i \in idx THEN << content[i] >> ELSE <<>>)
         \o LinesAt(content, idx, i + 1)

\* The non-empty lines of the section of a note headed `heading`.
SectionLines(content, heading) ==
    LinesAt(content,
            { i \in 1..Len(content) :
                InSection(content, i, heading) /\ content[i] # <<>> }, 1)

\* The unchecked task lines of the Tasks section of a note.
UncheckedTasks(content) ==
    LinesAt(content,
            { i \in 1..Len(content) :
                /\ InSection(content, i, TasksHeading)
                /\ StartsWith(content[i], << "-", " ", "[ ]" >>) }, 1)

\* The lines beginning with '-' of the Expected for Tomorrow section.
ExpectedDashes(content) ==
    LinesAt(content,
            { i \in 1..Len(content) :
                /\ InSection(content, i, ExpectedHeading)
                /\ StartsWith(content[i], << "-" >>) }, 1)

Placeholders ==
    << << " ", "-", " ", " ", "Task", " ", "0" >>,
       << " ", "-", " ", " ", "Task", " ", "1" >>,
       << " ", "-", " ", " ", "Task", " ", "2" >> >>

\* The last step was the command `name` on project p.
Ran(name, p) == op.name = name /\ op.project = p

----------------------------------------------------------------------------
\* C1: create_project(P) on a project whose directory does not exist returns
\* True and leaves the directory, its README.md and today's note; on a
\* project whose directory exists it returns False and changes no directory
\* and no file; a directory, once there, stays, so every later call is of
\* the second kind.
C1_CreateProjectOnce ==
    [][ /\ dirs \subseteq dirs'
        /\ \A p \in Projects :
             (op'.name = "new" /\ op'.project = p) =>
                IF p \notin dirs
                THEN /\ op'.ret = TRUE
                     /\ p \in dirs'
                     /\ << p, README >> \in DOMAIN files'
                     /\ << p, NoteName(today) >> \in DOMAIN files'
                ELSE /\ op'.ret = FALSE
                     /\ files' = files
                     /\ dirs' = dirs ]_vars

\* A second create_project has run on a project the user has written into.
C1_Witness ==
    /\ Ran("new", "demo")
    /\ op.ret = FALSE
    /\ edits > 0
    /\ << "demo", README >> \in DOMAIN files

\* C2: once today's note exists, create_daily_note returns False and leaves
\* every file, the note with the user's edits included, as it was.
C2_NoOverwrite ==
    [][ \A p \in Projects :
          ( /\ op'.name = "daily" /\ op'.project = p
            /\ << p, NoteName(today) >> \in DOMAIN files )
          => (op'.ret = FALSE /\ files' = files) ]_vars

\* create_daily_note has run on the day of a note the user has edited.
C2_Witness ==
    /\ Ran("daily", "demo")
    /\ op.ret = FALSE
    /\ << "demo", NoteName(today) >> \in DOMAIN files
    /\ files[<< "demo", NoteName(today) >>]
         = TEMPLATE(strftime(today), "demo", << T2, TX, T1 >>, << E1, EU >>)

C4_EndToEnd ==
    \A d \in Days :
       ( /\ Ran("daily", "demo") /\ op.ret = TRUE
         /\ today = d + 1
         /\ listdir(files, "demo") = { README, NoteName(d), NoteName(d + 1) }
         /\ files[<< "demo", NoteName(d) >>]
              = render_note("demo", strftime(d), << T1, T2 >>) )
       => SectionLines(files[<< "demo", NoteName(d + 1) >>], TasksHeading)
             = << T1, T2 >>

\* C7: create_daily_note on a project whose directory does not exist, or
\* whose note of today exists, returns False and writes no file.
C7_FailsSoftly ==
    [][ \A p \in Projects :
          ( /\ op'.name = "daily" /\ op'.project = p
            /\ (p \notin dirs \/ << p, NoteName(today) >> \in DOMAIN files) )
          => ( /\ op'.ret = FALSE
               /\ DOMAIN files' = DOMAIN files
               /\ \A f \in DOMAIN files : files'[f] = files[f]
               /\ dirs' = dirs ) ]_vars

\* create_daily_note has run on a project that was never created.
C7_Witness ==
    /\ Ran("daily", "demo")
    /\ op.ret = FALSE
    /\ "demo" \notin dirs
    /\ today > 30

\* C10: the note create_daily_note reads is the latest of the project's
\* files named YYYY-MM-DD.md, and None when there is no such file.
C10_LastNoteIsLatestDated ==
    \A p \in Projects :
       (Ran("daily", p) /\ p \in dirs /\ op.ret = TRUE) =>
          LET dated == { d \in Days : d < today
                                      /\ << p, NoteName(d) >> \in DOMAIN files }
          IN IF dated = {} THEN op.last_note = None
             ELSE \E d \in dated :
                     /\ op.last_note = NoteName(d)
                     /\ \A e \in dated : e <= d

----------------------------------------------------------------------------
\* The hard-coded defaults, and the file that holds exactly them.
HardCodedDefaults ==
    [base_dir |-> "/home/u/.notes", gemini_api_key |-> "", editor |-> "vim",
     template_path |-> ""]

DefaultsText ==
    << LBrace, Str("base_dir"), Colon, Str("/home/u/.notes"), Comma,
       Str("gemini_api_key"), Colon, Str(""), Comma,
       Str("editor"), Colon, Str("vim"), Comma,
       Str("template_path"), Colon, Str(""), RBrace >>

\* The object of a config file has the key k.
HasKey(text, k) ==
    \E i \in 1..(Len(text) - 1) : text[i] = Str(k) /\ text[i + 1] = Colon

\* The object of a config file gives the key k the value v.
Holds(text, k, v) ==
    \E i \in 1..(Len(text) - 2) :
        text[i] = Str(k) /\ text[i + 1] = Colon /\ text[i + 2] = Str(v)

\* C8: load_config on a missing or unparsable config file returns the
\* hard-coded defaults and leaves the file holding exactly them; a load that
\* follows a reset returns the same defaults and saves nothing.
C8_ResetToDefaults ==
    [][ /\ ( /\ cop'.name = "load"
             /\ (config_file = Missing \/ config_file \in BrokenConfigs) )
           => ( /\ cop'.config = HardCodedDefaults
                /\ cop'.saved = TRUE
                /\ config_file' = DefaultsText )
        /\ ( /\ cop.name = "load" /\ cop.saved = TRUE
             /\ cop'.name = "load" )
           => ( /\ cop'.config = HardCodedDefaults
                /\ cop'.saved = FALSE
                /\ config_file' = config_file ) ]_vars

\* A load has followed a load that reset the file.
C8_Witness ==
    /\ cop.name = "load"
    /\ cop.saved = FALSE
    /\ cop.config = HardCodedDefaults
    /\ config_file = DefaultsText

\* C9: load_config on a config file holding an object returns a config in
\* which every key of the file has the file's value, every one of the four
\* keys missing from the file has its default, and there is no other key.
C9_MergeWithDefaults ==
    [][ ( /\ cop'.name = "load"
          /\ config_file # Missing
          /\ config_file \notin BrokenConfigs
          /\ config_file \notin NonObjectConfigs )
        => \A k \in { KeyOrder[i] : i \in 1..Len(KeyOrder) } :
              IF HasKey(config_file, k)
              THEN k \in DOMAIN cop'.config
                   /\ Holds(config_file, k, cop'.config[k])
              ELSE IF k \in DOMAIN HardCodedDefaults
              THEN k \in DOMAIN cop'.config
                   /\ cop'.config[k] = HardCodedDefaults[k]
              ELSE k \notin DOMAIN cop'.config ]_vars

\* A file with base_dir and an unknown key has been loaded.
C9_Witness ==
    /\ cop.name = "load"
    /\ DOMAIN cop.config
         = { "base_dir", "gemini_api_key", "editor", "template_path", "theme" }
    /\ cop.config["theme"] = "dark"
    /\ cop.config["base_dir"] = "/data/notes"
    /\ cop.config["editor"] = "vim"

\* The number of '- [x]' in a note.
CompletedCount(content) ==
    Cardinality({ pos \in UNION { { << i, j >> : j \in 1..Len(content[i]) } :
                                     i \in 1..Len(content) } :
                    /\ pos[2] + 2 <= Len(content[pos[1]])
                    /\ content[pos[1]][pos[2]] = "-"
                    /\ content[pos[1]][pos[2] + 1] = " "
                    /\ content[pos[1]][pos[2] + 2] = "[x]" })

\* C5: in a drawn graph every date of [today - 30*months, today] has a
\* level: 0 without a note file; with a note of c completed tasks, 1 for
\* c = 0 and min(4, 1 + floor(c/3)) otherwise, so 2 for c = 3, 3 for c = 6
\* and 4 for every c >= 9; the level is in 0..4.
C5_ActivityLevel ==
    graph.drawn =>
       /\ DOMAIN graph.data
            = { strftime(d) : d \in (today - 30 * graph.months)..today }
       /\ \A d \in (today - 30 * graph.months)..today :
             LET level == graph.data[strftime(d)]
                 f == << "demo", NoteName(d) >>
                 c == CompletedCount(files[f])
             IN /\ level \in 0..4
                /\ IF f \notin DOMAIN files THEN level = 0
                   ELSE /\ c = 0 => level = 1
                        /\ c > 0 => level = (IF 1 + (c \div 3) < 4
                                             THEN 1 + (c \div 3) ELSE 4)
                        /\ c = 3 => level = 2
                        /\ c = 6 => level = 3
                        /\ c >= 9 => level = 4

\* A graph of one month was drawn with 12 completed tasks today, 3 on the
\* first day of the range, and no note in between.
C5_Witness ==
    /\ graph.drawn /\ graph.months = 1
    /\ << "demo", NoteName(today) >> \in DOMAIN files
    /\ CompletedCount(files[<< "demo", NoteName(today) >>]) = 12
    /\ graph.data[strftime(today)] = 4
    /\ << "demo", NoteName(today - 30) >> \in DOMAIN files
    /\ CompletedCount(files[<< "demo", NoteName(today - 30) >>]) = 3
    /\ graph.data[strftime(today - 30)] = 2
    /\ graph.data[strftime(today - 1)] = 0

\* C6: on a note of a heading line '## A' and a line with an open marker
\* and, later on the line, a close marker, get_important_items returns one
\* item, of section 'A', whose text is what stands between the two markers.
C6_OneItemBetweenMarkers ==
    (items.scanned /\ items.file \in DOMAIN files) =>
       LET line == files[items.file][2]
           i == CHOOSE i \in 1..Len(line) : line[i] = "[!]"
           j == CHOOSE j \in 1..Len(line) : line[j] = "[!!]"
       IN /\ Len(items.found) = 1
          /\ items.found[1].section = << "A" >>
          /\ items.found[1].item = SubSeq(line, i + 1, j - 1)

\* The note "## A\ntext [!] inner [!!] more\n" was scanned.
C6_Witness ==
    /\ items.scanned
    /\ items.file \in DOMAIN files
    /\ files[items.file]
         = << << "##", " ", "A" >>,
              << "text", " ", "[!]", " ", "inner", " ", "[!!]", " ", "more" >>,
              <<>> >>
    /\ items.found = << [item |-> << " ", "inner", " " >>, section |-> << "A" >>,
                         date |-> strftime(30)] >>

----------------------------------------------------------------------------
\* Markers in a note

\* The places << line, column >> of the note where the marker m stands.
Marks(content, m) ==
    UNION { { << k, i >> : i \in { j \in 1..Len(content[k]) : content[k][j] = m } } :
            k \in 1..Len(content) }

\* Place a comes before place b in the note.
Before(a, b) == a[1] < b[1] \/ (a[1] = b[1] /\ a[2] < b[2])

\* The text of the note from just after place a to just before place b.
RECURSIVE Between(_, _, _)
Between(content, a, b) ==
    IF a[1] = b[1] THEN SubSeq(content[a[1]], a[2] + 1, b[2] - 1)
    ELSE SubSeq(content[a[1]], a[2] + 1, Len(content[a[1]]))
         \o << Newline >> \o Between(content, << a[1] + 1, 0 >>, b)

\* The note has one open marker and, after it, one close marker.
OnePair(content) ==
    /\ Cardinality(Marks(content, Open)) = 1
    /\ Cardinality(Marks(content, Close)) = 1
    /\ \A o \in Marks(content, Open), c \in Marks(content, Close) : Before(o, c)

\* The section of line k of a note: the name on the nearest heading line
\* above it, for headings written '## name'.
SectionAt(content, k) ==
    LET above == { h \in 1..(k - 1) : StartsWith(content[h], << "##" >>) }
    IN IF above = {} THEN NoSection
       ELSE LET h == CHOOSE h \in above : \A g \in above : g <= h
            IN SubSeq(content[h], 3, Len(content[h]))

\* The open markers of a note that no close marker follows.
Unclosed(content) ==
    { o \in Marks(content, Open) :
        \A c \in Marks(content, Close) : ~Before(o, c) }

\* The note cut off just before place a.
CutBefore(content, a) ==
    SubSeq(content, 1, a[1] - 1) \o << SubSeq(content[a[1]], 1, a[2] - 1) >>

\* get_important_items has run on a note that is there.
Scanned == items.scanned /\ items.file \in DOMAIN files

\* C11: in a note with one open marker and one close marker after it,
\* every item get_important_items returns has the section of the line of
\* the open marker, heading lines between the two markers or not.
C11_SectionOfOpenMarker ==
    (Scanned /\ OnePair(files[items.file])) =>
       LET content == files[items.file]
           o == CHOOSE o \in Marks(content, Open) : TRUE
       IN \A n \in 1..Len(items.found) :
             items.found[n].section = SectionAt(content, o[1])

\* C12: in a note with one open marker and one close marker on a later
\* line, the text of the item get_important_items returns is the text of
\* the note from just after the open marker to just before the close
\* marker, every line in between included as it is.
C12_TextVerbatim ==
    (Scanned /\ OnePair(files[items.file])) =>
       LET content == files[items.file]
           o == CHOOSE o \in Marks(content, Open) : TRUE
           c == CHOOSE c \in Marks(content, Close) : TRUE
       IN o[1] < c[1] =>
             /\ Len(items.found) = 1
             /\ items.found[1].item = Between(content, o, c)

\* C13: in a note with an open marker that no close marker follows,
\* get_important_items returns the items of the note as it is before the
\* first such open marker, and nothing more.
C13_OpenWithoutCloseDropped ==
    (Scanned /\ Unclosed(files[items.file]) # {}) =>
       LET content == files[items.file]
           o == CHOOSE o \in Unclosed(content) :
                   \A u \in Unclosed(content) : u = o \/ Before(o, u)
           cut == CutBefore(content, o)
       IN items.found
             = items_loop(file_lines(cut), NoSection, <<>>, <<>>,
                          remove_md(items.file[2]))

\* a is a subsequence of b.
RECURSIVE IsSubSeq(_, _)
IsSubSeq(a, b) ==
    IF a = <<>> THEN TRUE
    ELSE IF b = <<>> THEN FALSE
    ELSE IF Head(a) = Head(b) THEN IsSubSeq(Tail(a), Tail(b))
    ELSE IsSubSeq(a, Tail(b))

\* The items among the printed lines, as get_important_items gives them.
RECURSIVE PrintedItems(_)
PrintedItems(printed) ==
    IF printed = <<>> THEN <<>>
    ELSE (IF Head(printed).header THEN <<>>
          ELSE << [item |-> Head(printed).item, section |-> Head(printed).section,
                   date |-> Head(printed).date] >>)
         \o PrintedItems(Tail(printed))

\* The notes of a project whose items are displayed.
DisplayedNotes(p) ==
    { f \in DOMAIN files : f[1] = p /\ EndsWith(f[2], MdExt) /\ f[2] # README }

\* C17: display_important_items prints every item of every note of the
\* project once, in non-increasing order of date string; every date has
\* one header, which stands before the first item of the date and has all
\* items of the date below it up to the next header; the items of one note
\* keep the order they have in the note.
C17_DisplayOrder ==
    items.displayed =>
       LET printed == items.printed
           shown == PrintedItems(printed)
           notes == DisplayedNotes("demo")
       IN /\ \A i, j \in 1..Len(printed) :
                i < j => ~StrLess(printed[i].date, printed[j].date)
          /\ \A i, j \in 1..Len(printed) :
                (printed[i].header /\ printed[j].header /\ i # j)
                   => printed[i].date # printed[j].date
          /\ \A i \in 1..Len(printed) :
                IF printed[i].header
                THEN i < Len(printed) /\ ~printed[i + 1].header
                ELSE /\ i > 1
                     /\ printed[i - 1].date = printed[i].date
          /\ \A f \in notes : IsSubSeq(get_important_items(files, f), shown)
          /\ \A x \in { shown[i] : i \in 1..Len(shown) } :
                Cardinality({ i \in 1..Len(shown) : shown[i] = x })
                   = Cardinality(UNION { { << f, n >> :
                        n \in { m \in 1..Len(get_important_items(files, f)) :
                                  get_important_items(files, f)[m] = x } } :
                        f \in notes })

\* Two notes of one date and a note of a later date were displayed, the
\* first note of the earlier date holding two items.
C17_Witness ==
    /\ items.displayed
    /\ << "demo", TwinName >> \in DOMAIN files
    /\ Len(get_important_items(files, << "demo", NoteName(30) >>)) = 3
    /\ Len(get_important_items(files, << "demo", NoteName(31) >>)) = 1
    /\ Len(items.printed) = 8
    /\ items.printed[1].header /\ items.printed[1].date = strftime(31)
    /\ items.printed[3].header /\ items.printed[3].date = strftime(30)
    /\ items.found[1].date = strftime(30)

----------------------------------------------------------------------------
\* C14: a note written by create_daily_note, by `daily` or by `new`, is the
\* template filled with its date, its project, the lines of its Tasks
\* section and, as its Expected for Tomorrow section, the one line
\* '- No expected tasks', whatever the note read holds: lines of that
\* note's Expected section appear in the Tasks section and nowhere else.
C14_ExpectedIsStatic ==
    \A p \in Projects :
       ((Ran("daily", p) \/ Ran("new", p)) /\ op.ret = TRUE) =>
          LET new == files[<< p, NoteName(today) >>]
          IN /\ SectionLines(new, ExpectedHeading)
                   = << << "-", " ", "No expected tasks" >> >>
             /\ new = TEMPLATE(strftime(today), p, SectionLines(new, TasksHeading),
                               << << "-", " ", "No expected tasks" >> >>)

\* A note was written from a note whose Expected section the user filled.
C14_Witness ==
    /\ Ran("daily", "demo")
    /\ op.ret = TRUE
    /\ op.last_note # None
    /\ ExpectedDashes(files[<< "demo", op.last_note >>]) = << E1, EU >>
    /\ SectionLines(files[<< "demo", NoteName(today) >>], ExpectedHeading)
         = << NoExpected >>

\* C15: a create_daily_note that returns True adds the file of today's note
\* to the project, which was not there, and no other file; every file that
\* was there is still there with the content it had, and no directory
\* changes.
C15_ExactlyOneFile ==
    [][ \A p \in Projects :
          (op'.name = "daily" /\ op'.project = p /\ op'.ret = TRUE) =>
             /\ << p, NoteName(today) >> \notin DOMAIN files
             /\ DOMAIN files' = (DOMAIN files) \cup { << p, NoteName(today) >> }
             /\ \A f \in DOMAIN files : files'[f] = files[f]
             /\ dirs' = dirs ]_vars

\* A note was written in a project that holds README.md, an edited note
\* that was read, and a file of the user.
C15_Witness ==
    /\ Ran("daily", "demo")
    /\ op.ret = TRUE
    /\ op.last_note = NoteName(today - 1)
    /\ files[<< "demo", NoteName(today - 1) >>]
         = TEMPLATE(strftime(today - 1), "demo", << T1, T2 >>, << NoExpected >>)
    /\ << "demo", README >> \in DOMAIN files
    /\ << "demo", << "i", "d", "e", "a", "s", ".", "t", "x", "t" >> >> \in DOMAIN files

----------------------------------------------------------------------------
\* The cells of a drawn graph: << row, column >>.
Cells == UNION { { << r, i >> : i \in 1..Len(graph.rows[r]) } : r \in 0..6 }

\* C16: a drawn graph has the 7 rows 0..6; row r holds the dates of
\* weekday r (0 = Monday) of [today - 30*months, today], from the first of
\* them on, 7 days apart, up to the last; every date of the range stands in
\* one cell and there are 30*months + 1 cells; a cell has the level of its
\* date.
C16_GraphRows ==
    graph.drawn =>
       LET start == today - 30 * graph.months
       IN /\ DOMAIN graph.rows = 0..6
          /\ \A r \in 0..6 :
                LET want == { d \in start..today : (d + 3) % 7 = r }
                    first == CHOOSE d \in want : \A e \in want : d <= e
                IN /\ Len(graph.rows[r]) = Cardinality(want)
                   /\ \A i \in 1..Len(graph.rows[r]) :
                         /\ first + 7 * (i - 1) \in want
                         /\ graph.rows[r][i].date = strftime(first + 7 * (i - 1))
                         /\ graph.rows[r][i].level
                               = graph.data[strftime(first + 7 * (i - 1))]
          /\ { graph.rows[c[1]][c[2]].date : c \in Cells }
                = { strftime(d) : d \in start..today }
          /\ Cardinality(Cells) = today - start + 1
          /\ Cardinality(Cells) = 30 * graph.months + 1

\* A graph of two months was drawn on Wednesday 2024-01-31: it starts on
\* Saturday 2023-12-02, and the row of Monday starts on 2023-12-04.
C16_Witness ==
    /\ graph.drawn /\ graph.months = 2
    /\ graph.rows[5][1].date = strftime(2)
    /\ graph.rows[0][1].date = strftime(4)
    /\ Len(graph.rows[5]) = 9
    /\ graph.rows[2][Len(graph.rows[2])].date = strftime(today)
    /\ << "demo", NoteName(today) >> \in DOMAIN files
    /\ graph.rows[2][Len(graph.rows[2])].level = 2

----------------------------------------------------------------------------
\* C18: no command ends with an exception nobody catches; in particular
\* loading the configuration, which every command does first, ends normally
\* whatever the config file holds.
C18_NothingFatal ==
    ~cop.raised

----------------------------------------------------------------------------
\* C19: an invocation of create_daily_note that has seen today's file
\* absent writes the file and returns True whether or not the file exists
\* by then: the file then holds what this invocation has rendered, and what
\* another invocation wrote in between is replaced.
C19_CheckThenAct ==
    [][ \A i \in DOMAIN procs :
          (procs[i].pc = "write" /\ procs'[i].pc = "done") =>
             /\ procs'[i].ret = TRUE
             /\ files'[<< "demo", NoteName(today) >>]
                   = render_note("demo", strftime(today), procs[i].carried) ]_vars

\* Both invocations have returned True; they had read different tasks, the
\* user having edited the last note in between, and today's file holds the
\* note of the second, the note of the first being replaced.
C19_Witness ==
    /\ DOMAIN procs = Invocations
    /\ procs[1].pc = "done" /\ procs[1].ret = TRUE
    /\ procs[2].pc = "done" /\ procs[2].ret = TRUE
    /\ procs[1].carried = << NoExpected >>
    /\ procs[2].carried = << T1, T2, NoExpected >>
    /\ files[<< "demo", NoteName(today) >>]
         = render_note("demo", strftime(today), procs[2].carried)

----------------------------------------------------------------------------
\* C20: the monitor makes at most one API request per change of the
\* clipboard: a content whose grammar check has failed is not sent again
\* while the clipboard stays as it is.
C20_NoRetry ==
    monitor.running => monitor.sent <= 1

----------------------------------------------------------------------------
\* The ways an API request fails, and the markers logged for them.
FailureKinds == { "network", "status", "malformed", "empty", "unexpected" }

FailureMarkers ==
    { API_ERROR, ERROR, NO_CORRECTION_RECEIVED, UNEXPECTED_API_RESPONSE }

\* The log file of the month, as it is read before its first row is
\* written: the header alone.
LogBefore(fs, log_file) ==
    IF log_file \in DOMAIN fs THEN fs[log_file] ELSE << LogHeader >>

\* C21: a check_grammar call whose API request fails (network failure,
\* non-2xx status, malformed JSON, no candidates, no text) raises nothing
\* and appends exactly one row to the log of the month: the rows that were
\* there stay, the new row holds the text and a failure marker, and no other
\* file changes.
C21_FailureLogged ==
    [][ (op'.name = "grammar" /\ op'.kind \in FailureKinds) =>
          LET log_file == << LogsDir, LogName(today) >>
              before == LogBefore(files, log_file)
          IN /\ ~op'.raised
             /\ log_file \in DOMAIN files'
             /\ files'[log_file]
                  = Append(before, files'[log_file][Len(before) + 1])
             /\ files'[log_file][Len(before) + 1][2] = op'.text
             /\ files'[log_file][Len(before) + 1][3] \in FailureMarkers
             /\ \A f \in DOMAIN files' \ { log_file } :
                   f \in DOMAIN files /\ files'[f] = files[f] ]_vars

\* A body that was no JSON was logged with ERROR in the log of January,
\* after a row that was there, the log of December being left as it was.
C21_Witness ==
    LET log_file == << LogsDir, LogName(today) >> IN
    /\ op.name = "grammar"
    /\ op.kind = "malformed"
    /\ today = 32
    /\ << LogsDir, LogName(31) >> \in DOMAIN files
    /\ log_file \in DOMAIN files
    /\ Len(files[log_file]) = 3
    /\ files[log_file][3][3] = ERROR

----------------------------------------------------------------------------
\* C22: a clipboard read that raises, the first read of monitor_clipboard
\* included, does not end the monitor: after it the monitor is running and
\* polls on.
C22_SurvivesReadError == monitor.read_error => monitor.running

----------------------------------------------------------------------------
\* C23: in a drawn graph a date has level 0 exactly when it has no note
\* file, and a date whose note holds at least one '- [x]' has a level from 2
\* to 4, so that level 1 stands for a note with no completed task and for
\* nothing else.
C23_LevelOneMeansNoneCompleted ==
    graph.drawn =>
        \A d \in (today - 30 * graph.months)..today :
            LET filename == << "demo", NoteName(d) >>
                level == graph.data[strftime(d)]
            IN /\ level = 0 <=> filename \notin DOMAIN files
               /\ (/\ filename \in DOMAIN files
                   /\ CompletedCount(files[filename]) >= 1)
                     => level \in 2..4

----------------------------------------------------------------------------
\* C24: get_incomplete_tasks returns, in file order, exactly the lines that
\* start with '- [ ]' and lie between the '## Tasks' heading line and the
\* next line starting with '##'; unchecked lines of the other sections are
\* not returned, whatever those sections hold.
C24_ExactlyTasksSection ==
    (op.name = "tasks" /\ << op.project, op.last_note >> \in DOMAIN files) =>
        op.carried = UncheckedTasks(files[<< op.project, op.last_note >>])

----------------------------------------------------------------------------
\* C25: a progress thread runs only during the API call it accompanies:
\* once a check_grammar or a summarize_clipboard_session of the monitor is
\* over, whatever its outcome, no thread it started is left printing.
C25_SpinnerStops == monitor.running => monitor.spinners = 0

----------------------------------------------------------------------------
\* C26: the graph that `list --months N` draws for a project is the graph
\* `stats --months N` draws for it: it covers the days from today - 30*N to
\* today.
C26_ListHonoursMonths ==
    (op.name = "list" /\ "projects" \in DOMAIN graph) =>
        \A i \in 1..Len(graph.projects) :
            LET project == graph.projects[i] IN
            /\ graph.graphs[project]
                 = generate_contribution_graph(dirs, files, project,
                                               graph.months, today)
            /\ DOMAIN graph.graphs[project].data
                 = { strftime(d) : d \in (today - 30 * graph.months)..today }

----------------------------------------------------------------------------
\* The dated notes of a project before today.
EarlierNotes(p) == { d \in Days : d < today /\ << p, NoteName(d) >> \in DOMAIN files }

\* The elements of a sequence.
Range(q) == { q[i] : i \in 1..Len(q) }

\* C27: in a project whose notes are all named YYYY-MM-DD.md, every line
\* starting with '- [ ]' in the Tasks section of the latest note is in the
\* Tasks section of the note create_daily_note writes on a later day, so an
\* unchecked task stays in the notes from day to day.
C27_TaskNeverLost ==
    \A p \in Projects :
       (Ran("daily", p) /\ op.ret = TRUE /\ EarlierNotes(p) # {}) =>
          LET latest == CHOOSE d \in EarlierNotes(p) :
                            \A k \in EarlierNotes(p) : k <= d
          IN Range(UncheckedTasks(files[<< p, NoteName(latest) >>]))
                \subseteq Range(UncheckedTasks(files[<< p, NoteName(today) >>]))

----------------------------------------------------------------------------
\* C28: when two invocations of create_daily_note for one project and day
\* both write today's file, and the user has written nothing since either
\* of them read the last note, the second writes what the first wrote, and
\* the file is the file one invocation alone would have written.
C28_SameContent ==
    [][ \A i \in DOMAIN procs : \A j \in DOMAIN procs :
          ( /\ i # j
            /\ procs[i].pc = "write" /\ procs'[i].pc = "done"
            /\ procs[j].pc = "done" /\ procs[j].ret = TRUE
            /\ procs[i].seen = edits /\ procs[j].seen = edits ) =>
             LET today_filename == << "demo", NoteName(today) >>
                 alone == [f \in (DOMAIN files) \ { today_filename } |-> files[f]]
             IN /\ procs[i].carried = procs[j].carried
                /\ files'[today_filename] = files[today_filename]
                /\ files'[today_filename]
                     = create_daily_note(dirs, alone, "demo", today).files[today_filename] ]_vars

\* Both invocations have written and returned True, the second after the
\* first; the user had given the last note two tasks before either read it
\* and has written nothing since, and today's file carries the two tasks.
C28_Witness ==
    /\ DOMAIN procs = Invocations
    /\ procs[1].pc = "done" /\ procs[1].ret = TRUE
    /\ procs[2].pc = "done" /\ procs[2].ret = TRUE
    /\ edits = 1 /\ procs[1].seen = 1 /\ procs[2].seen = 1
    /\ procs[1].carried = << T1, T2, NoExpected >>
    /\ files[<< "demo", NoteName(today) >>]
         = render_note("demo", strftime(today), << T1, T2, NoExpected >>)

----------------------------------------------------------------------------
\* C29: every name list_projects prints is the name of a project made by
\* create_project, which holds the README.md create_project wrote; the
\* directory of the grammar logs is not among the names.
C29_OnlyProjectsListed ==
    (op.name = "list" /\ "projects" \in DOMAIN graph) =>
        \A i \in 1..Len(graph.projects) :
            /\ graph.projects[i] \in Projects
            /\ << graph.projects[i], README >> \in DOMAIN files
            /\ graph.projects[i] # LogsDir

----------------------------------------------------------------------------
\* C30: the monitor does not process its own output: while the clipboard
\* holds the corrected text a successful check_grammar copied to it, no API
\* request is made, whatever the corrected text is.
C30_OwnOutputIgnored ==
    [][ (monitor.running /\ monitor.own /\ monitor'.running) =>
           monitor'.calls = monitor.calls ]_vars

====
